---- MODULE Spec2Model ----
(***************************************************************************)
(* A model of the PDF slide search tool: the index build (create_db.py)    *)
(* and the query program with its interactive viewer (search.py).          *)
(*                                                                         *)
(* The two programs are separate processes run one at a time from a shell; *)
(* they share only the store directory CHROMA_DIR.  A process's memory     *)
(* (its module-level and local variables) lives from its start until the   *)
(* process is gone.                                                        *)
(***************************************************************************)
EXTENDS Integers, Sequences, FiniteSets, TLC

\* ---------------------------------------------------------------- bounds
\* Number of PDF files that exist on disk (their paths are 1..NumSources).
NumSources == 2
\* Longest pdf_paths list of the configuration.
MaxPatterns == 3
\* Most pages a PDF holds.
MaxPages == 1
\* Number of runs of create_db.py.
MaxBuilds == 3
\* Largest -k given to search.py.
MaxK == 2

\* ------------------------------------------------------ program constants
\* format_search_result's max_length parameter.
max_length == 300

Sources == 1..NumSources

\* A glob pattern, identified with the set of existing files it matches.
Patterns == SUBSET Sources

RECURSIVE SeqsUpTo(_, _)
SeqsUpTo(S, n) ==
    IF n = 0 THEN {<<>>}
    ELSE LET shorter == SeqsUpTo(S, n - 1)
         IN  shorter \cup {Append(s, x) : s \in {t \in shorter : Len(t) = n - 1}, x \in S}

Range(s) == {s[n] : n \in DOMAIN s}

\* ---------------------------------------------------------------- state
VARIABLES
    store,      \* the directory CHROMA_DIR
    builds,     \* number of create_db.py runs started so far
    bpc,        \* position of the running (or last) create_db.py process
    pdf_files,  \* create_db.py: the resolved source list
    next_pdf,   \* create_db.py: index of the extraction loop over pdf_files
    documents,  \* create_db.py: the accumulated page documents
    store0,     \* the store directory as it was when the build started
    bexit,      \* exit status of create_db.py (-1 while it runs)
    braised,    \* the call of step 2 that raised ("" when none did)
    qpc,        \* position of the running (or last) search.py process
    args,       \* search.py: the command line
    results,    \* search.py: what search_documents returned
    printed,    \* search.py: the result lines written by the flat printer
    qexit,      \* exit status of search.py (-1 while it runs)
    built,      \* viewer: the widgets constructed so far
    i,          \* viewer: the cursor
    header,     \* viewer: header.text
    text_area,  \* viewer: text_area.text
    key,        \* viewer: the last key event and the cursor it found
    opened,     \* viewer: the path last handed to `open -a Preview`
    call        \* a call of find_pdf_files on its own: its argument and result

bvars == <<builds, bpc, pdf_files, next_pdf, documents, store0, bexit, braised>>
viewer == <<built, i, header, text_area, key, opened>>
qvars == <<qpc, args, results, printed, qexit, viewer>>
vars == <<store, bvars, qvars, call>>

\* ------------------------------------------------------------ the store
\* CHROMA_DIR: whether the directory exists, its file chroma.sqlite3 (0 when the
\* file is absent, else the number of the build whose client created it), and
\* the index data held in the directory's files, each entry tagged with the build
\* that wrote it.
Absent == [exists |-> FALSE, sentinel |-> 0, data |-> {}]

\* os.path.exists(os.path.join(CHROMA_DIR, "chroma.sqlite3"))
db_exists(dir) == dir.exists /\ dir.sentinel # 0

\* The entries a client opened on the directory sees: those recorded in the
\* chroma.sqlite3 it opens.
Collection(dir) == {e \in dir.data : e.build = dir.sentinel}

\* ------------------------------------------------------- source resolver
\* glob.glob(pattern, recursive=True): the matching files in listing order.
RECURSIVE glob(_)
glob(pattern) ==
    IF pattern = {} THEN <<>>
    ELSE LET first == CHOOSE x \in pattern : \A y \in pattern : x <= y
         IN  <<first>> \o glob(pattern \ {first})

\* The loop with break in place of continue: a pattern without matches ends it.
RECURSIVE expand_break(_, _)
expand_break(patterns, found) ==
    IF patterns = <<>> THEN found
    ELSE LET matches == glob(Head(patterns))
         IN  IF matches = <<>> THEN found
             ELSE expand_break(Tail(patterns), found \o matches)

\* The loop of find_pdf_files: a pattern without matches is skipped.
RECURSIVE expand(_, _)
expand(patterns, found) ==
    IF patterns = <<>> THEN found
    ELSE LET matches == glob(Head(patterns))
         IN  IF matches = <<>> THEN expand(Tail(patterns), found)
             ELSE expand(Tail(patterns), found \o matches)

\* list(dict.fromkeys(pdf_files)): the first occurrence of each key, in order.
RECURSIVE dict_fromkeys(_, _)
dict_fromkeys(s, seen) ==
    IF s = <<>> THEN <<>>
    ELSE IF Head(s) \in seen THEN dict_fromkeys(Tail(s), seen)
    ELSE <<Head(s)>> \o dict_fromkeys(Tail(s), seen \cup {Head(s)})

find_pdf_files(patterns) == dict_fromkeys(expand(patterns, <<>>), {})

\* The pdf_paths lists of the configuration.
Configs == UNION {[1..n -> Patterns] : n \in 0..MaxPatterns}

\* ---------------------------------------------------- document extractor
\* The text of a page, as its length.
page_text(pdf_path, page) == 298 + pdf_path + page

Document(pdf_path, page, total_pages) ==
    [page_content |-> page_text(pdf_path, page),
     metadata |-> [source |-> pdf_path, page |-> page, total_pages |-> total_pages]]

\* load_pdf_as_markdown: one Document per page; an exception while opening or
\* converting the file is caught and yields no document.
load_pdf_as_markdown(pdf_path, outcome) ==
    IF outcome.raised THEN <<>>
    ELSE [page \in 1..outcome.pages |-> Document(pdf_path, page, outcome.pages)]

\* What opening and converting a file comes to: an exception, or its pages.
Outcomes == {[raised |-> TRUE, pages |-> 0]} \cup {[raised |-> FALSE, pages |-> n] : n \in 1..MaxPages}

Entry(build, doc) == [build |-> build, doc |-> doc]

\* The index entries of a batch of documents written by one build.
Batch(docs, build) == {Entry(build, docs[n]) : n \in DOMAIN docs}

\* ------------------------------------------------------------ the shell
NoArgs == [k |-> 0, v |-> FALSE, i |-> FALSE, x |-> {}]
NoKey == [name |-> "", from |-> 0]

NoProcess == bpc = "idle" /\ qpc = "idle"

ViewerCleared ==
    /\ built' = {}
    /\ i' = 0
    /\ header' = <<>>
    /\ text_area' = 0
    /\ key' = NoKey
    /\ opened' = 0

\* The memory of an earlier search.py process is gone.
QueryCleared ==
    /\ qpc' = "idle"
    /\ args' = NoArgs
    /\ results' = <<>>
    /\ printed' = <<>>
    /\ qexit' = -1
    /\ ViewerCleared

\* The memory of an earlier create_db.py process is gone.
BuildCleared ==
    /\ bpc' = "idle"
    /\ pdf_files' = <<>>
    /\ next_pdf' = 1
    /\ documents' = <<>>
    /\ store0' = Absent
    /\ bexit' = -1
    /\ braised' = ""

\* --------------------------------------------------------- create_db.py
\* exit(status)
BuildExit(status) ==
    /\ bpc' = "exited"
    /\ bexit' = status

\* Start of create_db.py with pdf_paths = patterns in its configuration, up to
\* the source list of step 1: no source ends the build before the store is used.
create_db(patterns) ==
    /\ NoProcess
    /\ builds < MaxBuilds
    /\ builds' = builds + 1
    /\ pdf_files' = find_pdf_files(patterns)
    /\ IF pdf_files' = <<>>
       THEN BuildExit(1)
       ELSE bpc' = "extract" /\ bexit' = -1
    /\ next_pdf' = 1
    /\ documents' = <<>>
    /\ store0' = store
    /\ braised' = ""
    /\ UNCHANGED <<store, qvars, call>>

\* The create_db.py process is gone, and its memory with it.
create_db_ended ==
    /\ bpc = "exited"
    /\ BuildCleared
    /\ UNCHANGED <<store, builds, qvars, call>>

\* Step 1, one turn of the loop over pdf_files.
extract_pages(outcome) ==
    /\ bpc = "extract"
    /\ next_pdf <= Len(pdf_files)
    /\ LET doc_slides == load_pdf_as_markdown(pdf_files[next_pdf], outcome)
       IN  documents' = IF doc_slides # <<>> THEN documents \o doc_slides ELSE documents
    /\ next_pdf' = next_pdf + 1
    /\ UNCHANGED <<store, builds, bpc, pdf_files, store0, bexit, braised, qvars, call>>

\* The check with os.makedirs moved in front of it.
check_documents_after_makedirs ==
    /\ bpc = "extract"
    /\ next_pdf > Len(pdf_files)
    /\ store' = [store EXCEPT !.exists = TRUE]
    /\ IF documents = <<>>
       THEN BuildExit(1)
       ELSE bpc' = "embedding_model" /\ bexit' = bexit
    /\ UNCHANGED <<builds, pdf_files, next_pdf, documents, store0, braised, qvars, call>>

\* Step 1, after the loop: no document ends the build before the store is used.
check_documents ==
    /\ bpc = "extract"
    /\ next_pdf > Len(pdf_files)
    /\ IF documents = <<>>
       THEN BuildExit(1)
       ELSE bpc' = "makedirs" /\ bexit' = bexit
    /\ UNCHANGED <<store, builds, pdf_files, next_pdf, documents, store0, braised, qvars, call>>

\* Step 2: os.makedirs(CHROMA_DIR, exist_ok=True)
makedirs ==
    /\ bpc = "makedirs"
    /\ store' = [store EXCEPT !.exists = TRUE]
    /\ bpc' = "embedding_model"
    /\ UNCHANGED <<builds, pdf_files, next_pdf, documents, store0, bexit, braised, qvars, call>>

\* Step 2: the embedding model is constructed; no text is embedded yet.
load_embedding_model ==
    /\ bpc = "embedding_model"
    /\ bpc' = "check_db"
    /\ UNCHANGED <<store, builds, pdf_files, next_pdf, documents, store0, bexit, braised, qvars, call>>

\* Step 2, a call before the store is changed raises: the except clause exits.
setup_raises ==
    /\ bpc \in {"makedirs", "embedding_model"}
    /\ braised' = bpc
    /\ BuildExit(1)
    /\ UNCHANGED <<store, builds, pdf_files, next_pdf, documents, store0, qvars, call>>

\* The step without the deletion: the new entries join those in the directory.
overwrite_skipped ==
    /\ bpc = "check_db"
    /\ bpc' = "client"
    /\ UNCHANGED <<store, builds, pdf_files, next_pdf, documents, store0, bexit, braised, qvars, call>>

\* Step 2: the directory is deleted and made again when chroma.sqlite3 is in it,
\* and is used as it stands otherwise.
overwrite_existing ==
    /\ bpc = "check_db"
    /\ store' = IF db_exists(store)
                THEN [exists |-> TRUE, sentinel |-> 0, data |-> {}]
                ELSE store
    /\ bpc' = "client"
    /\ UNCHANGED <<builds, pdf_files, next_pdf, documents, store0, bexit, braised, qvars, call>>

\* Where the data of an entry comes in the listing of the directory.
Listed(e) == e.doc.metadata.source * (MaxPages + 1) + e.doc.metadata.page

\* shutil.rmtree raises part way: it removes the files in the order the
\* directory lists them, and those it has not reached are left.
rmtree_raises ==
    /\ bpc = "check_db"
    /\ db_exists(store)
    /\ \E reached \in 0..((NumSources + 1) * (MaxPages + 1)), sentinel \in {0, store.sentinel} :
          store' = [exists |-> TRUE, sentinel |-> sentinel,
                    data |-> {e \in store.data : Listed(e) > reached}]
    /\ braised' = "rmtree"
    /\ BuildExit(1)
    /\ UNCHANGED <<builds, pdf_files, next_pdf, documents, store0, qvars, call>>

\* Chroma.from_documents, first the client on persist_directory: it creates
\* chroma.sqlite3 when the directory has none.
open_client ==
    /\ bpc = "client"
    /\ store' = IF store.sentinel = 0 THEN [store EXCEPT !.sentinel = builds] ELSE store
    /\ bpc' = "embed"
    /\ UNCHANGED <<builds, pdf_files, next_pdf, documents, store0, bexit, braised, qvars, call>>

\* Chroma.from_documents, then the texts of all documents are embedded.
embed_documents ==
    /\ bpc = "embed"
    /\ bpc' = "add"
    /\ UNCHANGED <<store, builds, pdf_files, next_pdf, documents, store0, bexit, braised, qvars, call>>

\* Chroma.from_documents, last the entries are written; the script ends.
add_documents ==
    /\ bpc = "add"
    /\ store' = [store EXCEPT !.data = @ \cup Batch(documents, store.sentinel)]
    /\ BuildExit(0)
    /\ UNCHANGED <<builds, pdf_files, next_pdf, documents, store0, braised, qvars, call>>

\* Chroma.from_documents raises: nothing undoes what it has done so far.  While
\* writing, the entries of some documents are already in the store.
from_documents_raises ==
    /\ bpc \in {"client", "embed", "add"}
    /\ \E n \in 0..(Len(documents) - 1) :
          /\ bpc # "add" => n = 0
          /\ store' = [store EXCEPT !.data = @ \cup Batch(SubSeq(documents, 1, n), store.sentinel)]
    /\ braised' = bpc
    /\ BuildExit(1)
    /\ UNCHANGED <<builds, pdf_files, next_pdf, documents, store0, qvars, call>>

\* ------------------------------------------------------------ search.py
\* sys.exit(status), or the end of main
QueryExit(status) ==
    /\ qpc' = "exited"
    /\ qexit' = status

\* The result line of one document: a KeyError when the metadata has no
\* 'file_path'; the content is cut to max_length characters plus "...".
format_search_result(doc, verbose) ==
    LET content == IF doc.page_content > max_length THEN max_length + 3 ELSE doc.page_content
    IN  IF "file_path" \notin DOMAIN doc.metadata
        THEN [raised |-> "KeyError"]
        ELSE [raised |-> "",
              slide |-> doc.metadata.page,
              file_path |-> doc.metadata.file_path,
              content |-> IF verbose THEN content ELSE 0]

\* The flat printer's loop: the lines printed, and whether a result raised.
RECURSIVE print_results(_, _, _)
print_results(docs, verbose, lines) ==
    IF docs = <<>> THEN [lines |-> lines, raised |-> FALSE]
    ELSE LET line == format_search_result(Head(docs), verbose)
         IN  IF line.raised # "" THEN [lines |-> lines, raised |-> TRUE]
             ELSE print_results(Tail(docs), verbose, Append(lines, line))

\* vectorstore.similarity_search(query, k=k): the k nearest documents of the
\* collection, nearest first, by a ranking the model leaves open.
similarity_search(collection, k) ==
    LET docs == {e.doc : e \in collection}
        n == IF Cardinality(docs) < k THEN Cardinality(docs) ELSE k
    IN  {s \in SeqsUpTo(docs, n) : Len(s) = n /\ \A a, b \in 1..n : a # b => s[a] # s[b]}

\* Start of search.py with its command line; x is the set of sources the
\* tokens of a -x option stand for, empty when the option is not given.
search_py(k, v, interactive, x) ==
    /\ NoProcess
    /\ qpc' = "parse_args"
    /\ args' = [k |-> k, v |-> v, i |-> interactive, x |-> x]
    /\ results' = <<>>
    /\ printed' = <<>>
    /\ qexit' = -1
    /\ UNCHANGED <<store, bvars, viewer, call>>

\* The search.py process is gone, and its memory with it.
search_py_ended ==
    /\ qpc = "exited"
    /\ QueryCleared
    /\ UNCHANGED <<store, bvars, call>>

\* parser.parse_args(): the parser knows query, -k, -v and -i; any other
\* option is an unrecognized argument and ends the process with status 2.
parse_args ==
    /\ qpc = "parse_args"
    /\ IF args.x # {}
       THEN QueryExit(2)
       ELSE qpc' = "search_documents" /\ qexit' = qexit
    /\ UNCHANGED <<store, bvars, args, results, printed, viewer, call>>

\* search_documents without the check for chroma.sqlite3.
search_documents_unchecked ==
    /\ qpc = "search_documents"
    /\ results' \in similarity_search(Collection(store), args.k)
    /\ qpc' = IF args.i THEN "interactive_slide_viewer" ELSE "print"
    /\ UNCHANGED <<store, bvars, args, printed, qexit, viewer, call>>

\* search_documents(args.query, args.k): exit when chroma.sqlite3 is missing,
\* else the nearest k documents of the whole collection.
search_documents ==
    /\ qpc = "search_documents"
    /\ IF ~db_exists(store)
       THEN /\ QueryExit(1)
            /\ results' = results
       ELSE /\ results' \in similarity_search(Collection(store), args.k)
            /\ qpc' = IF args.i THEN "interactive_slide_viewer" ELSE "print"
            /\ qexit' = qexit
    /\ UNCHANGED <<store, bvars, args, printed, viewer, call>>

\* The embedding model, the client or the search raises: except Exception exits.
search_raises ==
    /\ qpc = "search_documents"
    /\ db_exists(store)
    /\ QueryExit(1)
    /\ UNCHANGED <<store, bvars, args, results, printed, viewer, call>>

\* main, flat mode: one line per result; an exception is caught and exits 1.
print_flat ==
    /\ qpc = "print"
    /\ LET out == print_results(results, args.v, <<>>)
       IN  /\ printed' = out.lines
           /\ QueryExit(IF out.raised THEN 1 ELSE 0)
    /\ UNCHANGED <<store, bvars, args, results, viewer, call>>

\* header.text of the viewer
header_text(rs, n) ==
    <<n + 1, Len(rs), rs[n + 1].metadata.page, rs[n + 1].metadata.source>>

\* get_slide_text(index): the text of results[index], as its length
get_slide_text(rs, n) == rs[n + 1].page_content

\* interactive_slide_viewer(results, query) up to app.run(): the widgets are
\* constructed in order; header reads results[0], which raises IndexError on
\* an empty list, caught by main's except Exception.
interactive_slide_viewer ==
    /\ qpc = "interactive_slide_viewer"
    /\ i' = 0
    /\ IF results = <<>>
       THEN /\ built' = {"tooltip", "query_label", "separator"}
            /\ header' = header
            /\ text_area' = text_area
            /\ QueryExit(1)
       ELSE /\ built' = {"tooltip", "query_label", "separator", "header", "text_area"}
            /\ header' = header_text(results, 0)
            /\ text_area' = get_slide_text(results, 0)
            /\ qpc' = "app.run"
            /\ qexit' = qexit
    /\ UNCHANGED <<store, bvars, args, results, printed, key, opened, call>>

\* update_content()
update_content ==
    /\ text_area' = get_slide_text(results, i')
    /\ header' = header_text(results, i')

KeyEvent(name) ==
    /\ qpc = "app.run"
    /\ key' = [name |-> name, from |-> i]

\* 'n'
next_slide ==
    /\ KeyEvent("n")
    /\ i' = (i + 1) % Len(results)
    /\ update_content
    /\ UNCHANGED <<store, bvars, qpc, args, results, printed, qexit, built, opened, call>>

\* 'p' stopping at the first result instead of wrapping to the last.
previous_slide_clamped ==
    /\ KeyEvent("p")
    /\ i' = IF i = 0 THEN 0 ELSE i - 1
    /\ update_content
    /\ UNCHANGED <<store, bvars, qpc, args, results, printed, qexit, built, opened, call>>

\* 'p'
previous_slide ==
    /\ KeyEvent("p")
    /\ i' = (i - 1) % Len(results)
    /\ update_content
    /\ UNCHANGED <<store, bvars, qpc, args, results, printed, qexit, built, opened, call>>

\* 'o': the PDF of the current result is handed to Preview.
open_pdf ==
    /\ KeyEvent("o")
    /\ opened' = results[i + 1].metadata.source
    /\ UNCHANGED <<store, bvars, qpc, args, results, printed, qexit, built, i, header, text_area, call>>

\* A key without a binding: no handler runs.
other_key ==
    /\ KeyEvent("other")
    /\ UNCHANGED <<store, bvars, qpc, args, results, printed, qexit, built, i, header, text_area, opened, call>>

\* 'q': app.exit() ends app.run(), the viewer returns and main ends.
exit_viewer ==
    /\ qpc = "app.run"
    /\ key' = [name |-> "q", from |-> i]
    /\ QueryExit(0)
    /\ UNCHANGED <<store, bvars, args, results, printed, built, i, header, text_area, opened, call>>

\* -------------------------------------------------------- specification
NoCall == [patterns |-> <<>>, returned |-> FALSE, pdf_files |-> <<>>]

\* No program is running.
Idle ==
    /\ bpc = "idle"
    /\ pdf_files = <<>>
    /\ next_pdf = 1
    /\ documents = <<>>
    /\ store0 = Absent
    /\ bexit = -1
    /\ braised = ""
    /\ qpc = "idle"
    /\ args = NoArgs
    /\ results = <<>>
    /\ printed = <<>>
    /\ qexit = -1
    /\ built = {}
    /\ i = 0
    /\ header = <<>>
    /\ text_area = 0
    /\ key = NoKey
    /\ opened = 0

\* CHROMA_DIR does not exist yet, or is an empty directory.
Init ==
    /\ store \in {Absent, [exists |-> TRUE, sentinel |-> 0, data |-> {}]}
    /\ builds = 0
    /\ Idle
    /\ call = NoCall

\* One run of create_db.py, from its start to its exit.
NextBuild ==
    \/ NoProcess /\ \E patterns \in Configs : create_db(patterns)
    \/ \E outcome \in Outcomes : extract_pages(outcome)
    \/ check_documents
    \/ makedirs
    \/ load_embedding_model
    \/ setup_raises
    \/ overwrite_existing
    \/ rmtree_raises
    \/ open_client
    \/ embed_documents
    \/ add_documents
    \/ from_documents_raises

\* One run of search.py, from its start to its exit.
NextSearch ==
    \/ NoProcess /\ \E k \in 1..MaxK, v \in BOOLEAN, interactive \in BOOLEAN, x \in SUBSET Sources :
          search_py(k, v, interactive, x)
    \/ parse_args
    \/ search_documents
    \/ search_raises
    \/ print_flat
    \/ interactive_slide_viewer
    \/ next_slide
    \/ previous_slide
    \/ open_pdf
    \/ other_key
    \/ exit_viewer

\* The two programs, run one after another any number of times.
Next ==
    \/ NextBuild
    \/ create_db_ended
    \/ NextSearch
    \/ search_py_ended

Spec == Init /\ [][Next]_vars

\* The states a directory is left in by an earlier build: not there, or there
\* with the entries of the pages that build extracted (none, when it wrote
\* nothing), with chroma.sqlite3 or, after a deletion that did not finish,
\* without it.
Stores ==
    {Absent} \cup
    {[exists |-> TRUE, sentinel |-> sentinel,
      data |-> UNION {{Entry(1, Document(pdf_path, page, pages[pdf_path])) :
                          page \in 1..pages[pdf_path]} : pdf_path \in Sources}] :
         sentinel \in {0, 1}, pages \in [Sources -> 0..MaxPages]}

\* One run of create_db.py over every state of the directory.
InitBuild ==
    /\ store \in Stores
    /\ builds = 1
    /\ Idle
    /\ call = NoCall

SpecBuild == InitBuild /\ [][NextBuild]_vars

\* One run of search.py over every state of the directory.
InitSearch ==
    /\ store \in Stores
    /\ builds = 1
    /\ Idle
    /\ call = NoCall

SpecSearch == InitSearch /\ [][NextSearch]_vars

\* find_pdf_files on its own, applied to every pdf_paths list.
InitResolve ==
    /\ store = Absent
    /\ builds = 0
    /\ Idle
    /\ call \in {[patterns |-> patterns, returned |-> FALSE, pdf_files |-> <<>>] : patterns \in Configs}

resolve ==
    /\ ~call.returned
    /\ call' = [call EXCEPT !.returned = TRUE, !.pdf_files = find_pdf_files(call.patterns)]
    /\ UNCHANGED <<store, bvars, qvars>>

SpecResolve == InitResolve /\ [][resolve]_vars

\* ------------------------------------------------------------- claims
BuildStopped == bpc = "exited"
QueryStopped == qpc = "exited"

\* C1: a query given a set x of sources to exclude (the -x option) completes
\* with a result list, and no result has its metadata.source in x.
C1_ExclusionIsHardFilter ==
    (QueryStopped /\ args.x # {} /\ db_exists(store)) =>
        /\ qexit = 0
        /\ \A n \in DOMAIN results : results[n].metadata.source \notin args.x

C3_FailedPersistLeavesStoreAbsent ==
    BuildStopped =>
        /\ braised \in {"client", "embed", "add"} => (bexit > 0 /\ ~db_exists(store))
        /\ (db_exists(store) /\ store.sentinel = builds) =>
               Collection(store) = Batch(documents, builds)

\* C4: in flat mode, when the search returned a non-empty list of entries
\* written by the build, one line per result is printed and the exit code is 0.
C4_FlatModeExitsZero ==
    (QueryStopped /\ ~args.i /\ results # <<>>) =>
        /\ qexit = 0
        /\ Len(printed) = Len(results)

\* C5: with an empty result list no viewer state is ever constructed.
C5_ViewerNotEnteredWhenEmpty ==
    results = <<>> => built = {}

\* C6: in the viewer the cursor is a valid index of results; next and previous
\* move it by one with wraparound at both ends; open, quit and keys without a
\* binding leave it where it is; the header shows the cursor's result.
C6_CursorInvariant ==
    "header" \in built =>
        /\ results # <<>>
        /\ i \in 0..(Len(results) - 1)
        /\ header[1] = i + 1
        /\ key.name = "n" => i = IF key.from = Len(results) - 1 THEN 0 ELSE key.from + 1
        /\ key.name = "p" => i = IF key.from = 0 THEN Len(results) - 1 ELSE key.from - 1
        /\ key.name \in {"o", "other", "q"} => i = key.from

\* C6 witness: previous on the first result has wrapped to the last.
C6_Witness ==
    /\ qpc = "app.run"
    /\ Len(results) > 1
    /\ key = [name |-> "p", from |-> 0]
    /\ i = Len(results) - 1

\* Where a path first occurs in the concatenation of the patterns' matches:
\* the first pattern matching it, and its place in that pattern's listing.
FirstSeen(patterns, path) ==
    LET n == CHOOSE m \in DOMAIN patterns :
                 /\ path \in patterns[m]
                 /\ \A l \in 1..(m - 1) : path \notin patterns[l]
    IN  <<n, Cardinality({other \in patterns[n] : other <= path})>>

Before(a, b) == a[1] < b[1] \/ (a[1] = b[1] /\ a[2] < b[2])

\* C7: find_pdf_files returns every path some pattern matches, each once, in
\* the order of first occurrence; a pattern without matches adds nothing and
\* does not stop the patterns after it.
C7_ResolveIsStableDedup ==
    call.returned =>
        LET found == call.pdf_files
        IN  /\ \A a, b \in DOMAIN found : a # b => found[a] # found[b]
            /\ Range(found) = UNION {call.patterns[n] : n \in DOMAIN call.patterns}
            /\ \A a, b \in DOMAIN found :
                   a < b => Before(FirstSeen(call.patterns, found[a]),
                                   FirstSeen(call.patterns, found[b]))

\* C7 witness: a pattern without matches comes before one with matches, and a
\* path is matched by two patterns.
C7_Witness ==
    /\ call.returned
    /\ \E n, m \in DOMAIN call.patterns :
           n < m /\ call.patterns[n] = {} /\ call.patterns[m] # {}
    /\ \E n, m \in DOMAIN call.patterns :
           n # m /\ call.patterns[n] \cap call.patterns[m] # {}
    /\ Len(call.pdf_files) = NumSources

\* C8: through step 1, and after a build that ends there for want of sources
\* or of documents, the directory is as it was when the build started, and
\* such a build exits with status 1.
C8_AbortLeavesStoreUntouched ==
    /\ bpc = "extract" => store = store0
    /\ (BuildStopped /\ (pdf_files = <<>> \/ documents = <<>>)) =>
           (bexit = 1 /\ braised = "" /\ store = store0)

\* C8 witness: no document was extracted and the earlier store is still there.
C8_Witness ==
    /\ BuildStopped
    /\ pdf_files # <<>>
    /\ documents = <<>>
    /\ db_exists(store)
    /\ store.data # {}

\* C9: without chroma.sqlite3 the query never gets past search_documents: it
\* exits nonzero with no result, no printed line and no viewer.
C9_MissingStoreIsFatal ==
    /\ qpc \in {"print", "interactive_slide_viewer", "app.run"} => db_exists(store)
    /\ (QueryStopped /\ ~db_exists(store)) =>
           /\ qexit > 0
           /\ args.x = {} => qexit = 1
           /\ results = <<>>
           /\ printed = <<>>
           /\ built = {}

\* C9 witness: a query on a directory whose store was deleted part way.
C9_Witness ==
    /\ QueryStopped
    /\ args.x = {}
    /\ qexit = 1
    /\ store.exists
    /\ store.sentinel = 0
    /\ store.data # {}

\* C10 as stated: until every document is embedded, and after a build that
\* failed embedding one, a store that existed has not been deleted.
C10_EmbeddingBeforeDeletion ==
    (db_exists(store0) /\ (bpc \in {"client", "embed"} \/ (BuildStopped /\ braised = "embed"))) =>
        /\ store.sentinel = store0.sentinel
        /\ store0.data \subseteq store.data

\* C10 as amended: a build that fails constructing the embedding model exits 1
\* with the store's files as they were; a build that fails embedding the
\* documents exits 1 with a store that existed already deleted.
C10_EmbeddingAfterDeletion ==
    /\ (BuildStopped /\ braised = "embedding_model") =>
           /\ bexit = 1
           /\ store.sentinel = store0.sentinel
           /\ store.data = store0.data
    /\ (BuildStopped /\ braised = "embed") =>
           /\ bexit = 1
           /\ db_exists(store0) => (store.data = {} /\ store.sentinel = builds)

\* C10 witness: embedding failed in a build that found a store with entries.
C10_Witness ==
    /\ BuildStopped
    /\ braised = "embed"
    /\ db_exists(store0)
    /\ store0.data # {}
====
